---------------------------- MODULE Spec2Model ----------------------------
(***************************************************************************)
(* Model of src/app.py: the balance synchronisation engine of a Solana     *)
(* wallet tracker (balance cache with RPC endpoint failover, transaction   *)
(* history walk, background poller, request handlers, socket observers).   *)
(*                                                                         *)
(* Time is counted in ticks of 500 ms, the value of balance_cache_timeout  *)
(* and of the poller's sleep; the per-request timeout of 1 s is 2 ticks.   *)
(* A balance in SOL (the float value / 1e9 of the code) is held as the     *)
(* reduced fraction <<numerator, denominator>>.                            *)
(***************************************************************************)
EXTENDS Integers, Sequences, FiniteSets, TLC

\* ------------------------------------------------------------------ bounds
\* the clock stops advancing at MaxTime
MaxTime == 2

\* ------------------------------------------------------- program constants
\* balance_cache_timeout = 0.5 s, in ticks
balance_cache_timeout == 1
\* timeout=1 of session.post in get_wallet_balance, in ticks
RequestTimeout == 2
\* len(address) < 32 or len(address) > 44 is rejected
MinAddressLen == 32
MaxAddressLen == 44
\* the divisor 1e9 of lamports per SOL
LAMPORTS_PER_SOL == 1000000000

RPC_ENDPOINTS == <<"vibestation", "mainnet-beta", "ankr">>

None == "None"

\* ---------------------------------------------------------------- strings
\* A string is the sequence of its characters.
Rep(ch, n) == [i \in 1..n |-> ch]

valid_chars ==
    {"1","2","3","4","5","6","7","8","9",
     "A","B","C","D","E","F","G","H","J","K","L","M","N","P","Q","R","S","T",
     "U","V","W","X","Y","Z",
     "a","b","c","d","e","f","g","h","i","j","k","m","n","o","p","q","r","s",
     "t","u","v","w","x","y","z"}

\* The address strings the callers pass, by name.
AddressText(a) ==
    CASE a = "W1"    -> Rep("A", 32)
      [] a = "W2"    -> Rep("z", 44)
      [] a = "Short" -> Rep("A", 31)
      [] a = "Long"  -> Rep("A", 45)
      [] a = "Zero"  -> Rep("A", 31) \o <<"0">>
      [] a = "Empty" -> <<>>

Strings == {"W1", "W2", "Short", "Long", "Zero", "Empty"}

\* Variant: the character check of lines 81-82 is missing.
validate_solana_address_LengthOnly(a) ==
    LET s == AddressText(a) IN
    Len(s) >= MinAddressLen /\ Len(s) <= MaxAddressLen

\* validate_solana_address(address)
validate_solana_address(a) ==
    LET s == AddressText(a) IN
    IF Len(s) = 0 \/ Len(s) < MinAddressLen \/ Len(s) > MaxAddressLen
    THEN FALSE
    ELSE \A i \in 1..Len(s) : s[i] \in valid_chars

\* --------------------------------------------------------------- balances
RECURSIVE GCD(_, _)
GCD(x, y) == IF y = 0 THEN x ELSE GCD(y, x % y)

\* response_data['result']['value'] / 1e9
ToSol(value) ==
    LET g == GCD(LAMPORTS_PER_SOL, value)
    IN  <<value \div g, LAMPORTS_PER_SOL \div g>>

\* The lamport values the ledger holds: 0, 1.0 and 1.2 SOL.
LamportValues == {0, 1000000000, 1200000000}

\* The accounts that exist on the ledger: the strings the validator accepts.
Accounts == {a \in Strings : validate_solana_address(a)}

\* ------------------------------------------------------------------ state
VARIABLES
    now,            \* time.time(), in ticks
    ledger,         \* the remote ledger: lamports of each account
    balance_cache,  \* the dict balance_cache: address -> <<balance, cache_time>>
    stored_at,      \* history: ticks since each cache entry was stored, counted
                    \* up to balance_cache_timeout
    gwb,            \* one get_wallet_balance activation per thread
    wallets,        \* the TrackedWallet table: address -> row
    events,         \* the wallet_update events given to socketio.emit, in order
    poller,         \* the update_wallet_balances threads
    task,           \* the update_wallet tasks on the executor
    hist,           \* the get_wallet_transactions activation
    conn            \* the handle_connect activation of a connecting client

\* Threads that call get_wallet_balance directly.
Callers == {"c1", "c2"}

\* The update_wallet_balances threads: the one started when the module is
\* loaded (line 347) and the one started under __main__ (line 530).
Pollers == {"p1", "p2"}

\* The executor threads running update_wallet, one per poller and wallet.
Tasks ==
    [t \in {"p1.W1", "p1.W2", "p2.W1", "p2.W2"} |->
        [poller  |-> IF t \in {"p1.W1", "p1.W2"} THEN "p1" ELSE "p2",
         address |-> IF t \in {"p1.W1", "p2.W1"} THEN "W1" ELSE "W2"]]

Workers == DOMAIN Tasks

Threads == Callers \cup Workers

NoBalance == <<>>

IdleFrame ==
    [pc |-> "idle", wallet_address |-> None, current_time |-> 0, idx |-> 0,
     sent_at |-> 0, attempts |-> <<>>, via |-> None, result |-> NoBalance,
     exc |-> None]

InvalidAddress == "Invalid Solana wallet address format"
AllEndpointsFailed == "Failed to fetch balance from all RPC endpoints"

\* What one session.post can come back with: an exception of the transport
\* (connection error, or Timeout after RequestTimeout), or a response with a
\* status and a body.
Responses ==
    { [raised |-> "ConnectionError", ok |-> FALSE, json |-> "none"],
      [raised |-> "Timeout",         ok |-> FALSE, json |-> "none"],
      [raised |-> None, ok |-> FALSE, json |-> "value"],
      [raised |-> None, ok |-> TRUE,  json |-> "invalid"],
      [raised |-> None, ok |-> TRUE,  json |-> "no_result"],
      [raised |-> None, ok |-> TRUE,  json |-> "no_value"],
      [raised |-> None, ok |-> TRUE,  json |-> "value"] }

\* Lines 116-119: response.ok, response.json() parses, 'result' in
\* response_data and response_data['result']['value'] exists.
WellFormedSuccess(r) ==
    /\ r.raised = None
    /\ r.ok
    /\ r.json = "value"

\* A Timeout is raised once RequestTimeout has elapsed; anything else arrives
\* before that.
Arrives(f, r) ==
    IF r.raised = "Timeout"
    THEN now - f.sent_at >= RequestTimeout
    ELSE now - f.sent_at <= RequestTimeout

\* Line 92: current_time - cache_time < balance_cache_timeout
CacheFresh(entry, current_time) ==
    current_time - entry[2] < balance_cache_timeout

\* balance_cache[wallet_address] = (balance, cache_time)
CachePut(cache, a, balance, cache_time) ==
    [x \in DOMAIN cache \cup {a} |->
        IF x = a THEN <<balance, cache_time>> ELSE cache[x]]

\* The stamp line 120 stores with the balance: current_time of line 89.
CacheStamp(f) == f.current_time

\* Variant: the loop skips an endpoint after a failure.
NextEndpoint_Skip(idx) == idx + 2

\* The endpoint the for loop of line 100 takes after endpoint idx.
NextEndpoint(idx) == idx + 1

\* Locals that are dead once the loop of line 100 is over.
Forget(f) == [f EXCEPT !.current_time = 0, !.idx = 0, !.sent_at = 0]

Returned(f, v, how) == [Forget(f) EXCEPT !.pc = "returned", !.result = v, !.via = how]
Raising(f, msg)     == [Forget(f) EXCEPT !.pc = "L130", !.exc = msg]

\* Lines 102-114: session.post to RPC_ENDPOINTS[idx] is sent.
Posted(f, idx) ==
    [f EXCEPT !.pc = "L114", !.idx = idx, !.sent_at = now,
              !.attempts = Append(@, RPC_ENDPOINTS[idx])]

\* Variant: lines 96-97 (the validation) are missing.
FrameAfterL90_NoValidation(f) ==
    LET a == f.wallet_address IN
    IF a \in DOMAIN balance_cache /\ CacheFresh(balance_cache[a], f.current_time)
    THEN Returned(f, balance_cache[a][1], "fresh")
    ELSE Posted(f, 1)

\* Lines 90-97: the cache check, then the validation, then the first post.
FrameAfterL90(f) ==
    LET a == f.wallet_address IN
    IF a \in DOMAIN balance_cache /\ CacheFresh(balance_cache[a], f.current_time)
    THEN Returned(f, balance_cache[a][1], "fresh")
    ELSE IF ~validate_solana_address(a)
    THEN Raising(f, InvalidAddress)
    ELSE Posted(f, 1)

\* Lines 86-114: a thread enters get_wallet_balance(a): current_time =
\* time.time() of line 89, then lines 90-97.
Enter(t, a) ==
    gwb' = [gwb EXCEPT ![t] =
              FrameAfterL90([IdleFrame EXCEPT !.wallet_address = a,
                                              !.current_time = now])]

\* The caller has taken the result: the activation is gone.
Leave(t) == gwb' = [gwb EXCEPT ![t] = IdleFrame]

\* Lines 122-123 and the end of the loop body: this endpoint failed, the
\* loop posts to the next one, or is over.
FrameAfterFailure(f) ==
    IF NextEndpoint(f.idx) \in 1..Len(RPC_ENDPOINTS)
    THEN Posted(f, NextEndpoint(f.idx))
    ELSE [Forget(f) EXCEPT !.pc = "L126"]

\* Lines 114-123: the post comes back with r; a well-formed success is
\* converted, cached and returned, anything else moves to the next endpoint.
L114(t, r) ==
    LET f == gwb[t]
        a == f.wallet_address
        balance == ToSol(ledger[a])
    IN  /\ f.pc = "L114"
        /\ Arrives(f, r)
        /\ IF WellFormedSuccess(r)
           THEN /\ balance_cache' = CachePut(balance_cache, a, balance, CacheStamp(f))
                /\ stored_at' = [x \in DOMAIN stored_at \cup {a} |->
                                    IF x = a THEN 0 ELSE stored_at[x]]
                /\ gwb' = [gwb EXCEPT ![t] = Returned(f, balance, "network")]
           ELSE /\ gwb' = [gwb EXCEPT ![t] = FrameAfterFailure(f)]
                /\ UNCHANGED <<balance_cache, stored_at>>
        /\ UNCHANGED <<now, ledger>>

\* Variant: lines 126-127 (the fallback to the cached balance) are missing.
FrameAfterL126_NoFallback(f) == Raising(f, AllEndpointsFailed)

\* Lines 125-128: every endpoint failed.
FrameAfterL126(f) ==
    LET a == f.wallet_address IN
    IF a \in DOMAIN balance_cache
    THEN Returned(f, balance_cache[a][1], "stale")
    ELSE Raising(f, AllEndpointsFailed)

L126(t) ==
    /\ gwb[t].pc = "L126"
    /\ gwb' = [gwb EXCEPT ![t] = FrameAfterL126(gwb[t])]
    /\ UNCHANGED <<now, ledger, balance_cache, stored_at>>

\* Variant: the handler swallows the exception and returns a zero balance.
FrameAfterL130_Swallow(f) ==
    LET a == f.wallet_address IN
    IF a \in DOMAIN balance_cache
    THEN Returned(f, balance_cache[a][1], "stale")
    ELSE Returned(f, <<0, 1>>, "stale")

\* Lines 130-134: the handler of the outer try.
FrameAfterL130(f) ==
    LET a == f.wallet_address IN
    IF a \in DOMAIN balance_cache
    THEN Returned(f, balance_cache[a][1], "stale")
    ELSE [f EXCEPT !.pc = "raised"]

L130(t) ==
    /\ gwb[t].pc = "L130"
    /\ gwb' = [gwb EXCEPT ![t] = FrameAfterL130(gwb[t])]
    /\ UNCHANGED <<now, ledger, balance_cache, stored_at>>

\* One step of a get_wallet_balance activation.
GwbStep(t) ==
    /\ \/ \E r \in Responses : L114(t, r)
       \/ L126(t)
       \/ L130(t)
    /\ UNCHANGED <<wallets, events, poller, task, hist, conn>>

\* ------------------------------------------------------------ the poller
NoRow == <<>>

IdleTask ==
    [pc |-> "idle", wallet |-> NoRow, balance |-> NoBalance, error |-> None,
     wrote |-> FALSE, sent |-> FALSE]

\* time.sleep(0.5) of line 343 and time.sleep(1) of line 315, in ticks
PollInterval == 1
EmptyPause == 2

\* TrackedWallet.query.filter_by(is_active=True).all()
ActiveWallets == {a \in DOMAIN wallets : wallets[a].is_active}

TasksOf(p) == {t \in Workers : Tasks[t].poller = p}

\* Lines 310-316 and 338: the loop wakes up, reads the active wallets and,
\* if there are any, hands one update_wallet task per wallet to the executor.
Scan(p) ==
    /\ poller[p].pc = "sleep"
    /\ now >= poller[p].wake_at
    /\ IF ActiveWallets = {}
       THEN /\ poller' = [poller EXCEPT ![p].wake_at = now + EmptyPause]
            /\ UNCHANGED task
       ELSE /\ poller' = [poller EXCEPT ![p].pc = "L338"]
            /\ task' = [t \in Workers |->
                          IF Tasks[t].poller = p /\ Tasks[t].address \in ActiveWallets
                          THEN [IdleTask EXCEPT !.pc = "queued",
                                                !.wallet = wallets[Tasks[t].address]]
                          ELSE task[t]]
    /\ UNCHANGED <<now, ledger, balance_cache, stored_at, gwb, wallets, events, hist, conn>>

\* Lines 313 and 340-343: the query raises; the error is printed and the loop
\* sleeps.
ScanFails(p) ==
    /\ poller[p].pc = "sleep"
    /\ now >= poller[p].wake_at
    /\ poller' = [poller EXCEPT ![p].wake_at = now + PollInterval]
    /\ UNCHANGED <<now, ledger, balance_cache, stored_at, gwb, wallets, events, task, hist, conn>>

\* Line 320: an executor thread starts the task and calls get_wallet_balance.
WorkerStart(t) ==
    /\ task[t].pc = "queued"
    /\ task' = [task EXCEPT ![t].pc = "L320"]
    /\ Enter(t, Tasks[t].address)
    /\ UNCHANGED <<now, ledger, balance_cache, stored_at, wallets, events, poller, hist, conn>>

\* Variant: the fetched balance is compared with what the cache holds.
HasChanged_AgainstCache(balance, wallet) ==
    \A a \in DOMAIN balance_cache : balance_cache[a][1] # balance

\* Line 321: balance != wallet.last_balance, on the wallet object of the scan.
HasChanged(balance, wallet) == balance # wallet.last_balance

\* Variant: a changed balance is broadcast without being written first.
TaskAfterFetch_BroadcastFirst(k, f) ==
    IF f.pc = "raised"
    THEN [k EXCEPT !.pc = "done", !.error = "fetch"]
    ELSE IF HasChanged(f.result, k.wallet)
    THEN [k EXCEPT !.pc = "L332", !.balance = f.result]
    ELSE [k EXCEPT !.pc = "done", !.balance = f.result]

\* Lines 320-321 and 334-335: get_wallet_balance is over. An exception ends
\* the task; an unchanged balance ends it too; a changed one goes on to the
\* commit.
TaskAfterFetch(k, f) ==
    IF f.pc = "raised"
    THEN [k EXCEPT !.pc = "done", !.error = "fetch"]
    ELSE IF HasChanged(f.result, k.wallet)
    THEN [k EXCEPT !.pc = "L324", !.balance = f.result]
    ELSE [k EXCEPT !.pc = "done", !.balance = f.result]

WorkerFetched(t) ==
    /\ task[t].pc = "L320"
    /\ gwb[t].pc \in {"returned", "raised"}
    /\ task' = [task EXCEPT ![t] = TaskAfterFetch(task[t], gwb[t])]
    /\ Leave(t)
    /\ UNCHANGED <<now, ledger, balance_cache, stored_at, wallets, events, poller, hist, conn>>

\* Variant: the broadcast is reached although the commit raised.
TaskAfterCommit_BroadcastAnyway(k, ok) ==
    IF ok
    THEN [k EXCEPT !.pc = "L332", !.wrote = TRUE,
                   !.wallet = [@ EXCEPT !.last_balance = k.balance,
                                        !.last_updated = now]]
    ELSE [k EXCEPT !.pc = "L332", !.error = "commit"]

\* Lines 322-324: last_balance and last_updated of the row are set and
\* committed; a commit that raises (or a row that is gone) ends the task at
\* line 335.
TaskAfterCommit(k, ok) ==
    IF ok
    THEN [k EXCEPT !.pc = "L332", !.wrote = TRUE,
                   !.wallet = [@ EXCEPT !.last_balance = k.balance,
                                        !.last_updated = now]]
    ELSE [k EXCEPT !.pc = "done", !.error = "commit"]

\* Variant: the commit writes every column of the wallet object of the scan.
WriteRow_EveryColumn(table, a, k) ==
    [table EXCEPT ![a] = [k.wallet EXCEPT !.last_balance = k.balance,
                                          !.last_updated = now]]

\* The UPDATE the commit of line 324 issues for the row of a: the columns
\* set at lines 322-323, and no other.
WriteRow(table, a, k) ==
    [table EXCEPT ![a].last_balance = k.balance, ![a].last_updated = now]

WorkerCommit(t, ok) ==
    LET a == Tasks[t].address
        done == ok /\ a \in DOMAIN wallets
    IN  /\ task[t].pc = "L324"
        /\ task' = [task EXCEPT ![t] = TaskAfterCommit(task[t], done)]
        /\ wallets' = IF done THEN WriteRow(wallets, a, task[t]) ELSE wallets
        /\ UNCHANGED <<now, ledger, balance_cache, stored_at, gwb, events, poller, hist, conn>>

\* Lines 327-333: the balance_update event is broadcast.
WorkerBroadcast(t) ==
    /\ task[t].pc = "L332"
    /\ events' = Append(events, [type |-> "balance_update",
                                 address |-> Tasks[t].address,
                                 balance |-> task[t].balance])
    /\ task' = [task EXCEPT ![t].pc = "done", ![t].sent = TRUE]
    /\ UNCHANGED <<now, ledger, balance_cache, stored_at, gwb, wallets, poller, hist, conn>>

\* Variant: a task that failed keeps the loop from ever going on.
Join_StopOnError(p) ==
    /\ poller[p].pc = "L338"
    /\ \A t \in TasksOf(p) : task[t].pc \in {"idle", "done"} /\ task[t].error = None
    /\ poller' = [poller EXCEPT ![p] = [pc |-> "sleep", wake_at |-> now + PollInterval]]
    /\ task' = [t \in Workers |-> IF t \in TasksOf(p) THEN IdleTask ELSE task[t]]
    /\ UNCHANGED <<now, ledger, balance_cache, stored_at, gwb, wallets, events, hist, conn>>

\* Lines 338-343: list(executor.map(...)) has every result; the loop sleeps.
Join(p) ==
    /\ poller[p].pc = "L338"
    /\ \A t \in TasksOf(p) : task[t].pc \in {"idle", "done"}
    /\ poller' = [poller EXCEPT ![p] = [pc |-> "sleep", wake_at |-> now + PollInterval]]
    /\ task' = [t \in Workers |-> IF t \in TasksOf(p) THEN IdleTask ELSE task[t]]
    /\ UNCHANGED <<now, ledger, balance_cache, stored_at, gwb, wallets, events, hist, conn>>

\* ------------------------------------------- get_wallet_transactions
\* the listing holds at most MaxSigs signatures
MaxSigs == 3

Signatures == {"s1", "s2"}

\* What the getSignaturesForAddress post of line 139 can come back with: an
\* exception of the transport, a non-success status, a body that is no JSON, a
\* body with 'error', a body whose result is null or empty, a result whose
\* entries have no 'signature', or a list of signatures.
ListingResponses ==
    { [kind |-> k, sigs |-> <<>>] :
        k \in {"raise", "http", "bad_json", "error", "empty", "no_signature"} }
    \cup
    { [kind |-> "list", sigs |-> q] :
        q \in UNION { [1..n -> Signatures] : n \in 1..MaxSigs } }

\* What a getTransaction post of line 174 can come back with: a failure of
\* one of these kinds, or a record with account keys, balances and block time.
NoRecord(k) ==
    [kind |-> k, keys |-> <<>>, pre |-> <<>>, post |-> <<>>,
     bt_kind |-> "absent", bt |-> 0]

DetailResponses ==
    { NoRecord(k) : k \in {"raise", "http", "bad_json", "error", "null", "no_meta"} }
    \cup
    { [kind |-> "record", keys |-> <<"W1", "W2">>,
       pre |-> <<2000000000, 0>>, post |-> <<1000000000, 1000000000>>,
       bt_kind |-> "int", bt |-> 1],
      [kind |-> "record", keys |-> <<"W1">>,
       pre |-> <<1000000000>>, post |-> <<1000000000>>,
       bt_kind |-> "int", bt |-> 2],
      [kind |-> "record", keys |-> <<"W2", "W1">>,
       pre |-> <<1000000000>>, post |-> <<2000000000>>,
       bt_kind |-> "absent", bt |-> 0],
      [kind |-> "record", keys |-> <<"W1", "W2">>,
       pre |-> <<0, 1000000000>>, post |-> <<1000000000, 0>>,
       bt_kind |-> "null", bt |-> 0] }

IdleHist ==
    [pc |-> "idle", wallet_address |-> None, listing |-> None, signatures |-> <<>>,
     details |-> <<>>, transactions |-> <<>>]

\* Variant: the pubkey comparison of line 212 is missing, so the first account
\* is taken to be the wallet.
AccountIndex_First(keys, a) == IF Len(keys) > 0 THEN 1 ELSE -1

\* Lines 210-214: the index of wallet_address in account_keys, or -1.
AccountIndex(keys, a) ==
    IF \E i \in 1..Len(keys) : keys[i] = a
    THEN CHOOSE i \in 1..Len(keys) :
            keys[i] = a /\ \A j \in 1..(i - 1) : keys[j] # a
    ELSE -1

Abs(x) == IF x < 0 THEN 0 - x ELSE x

\* account_keys[1]['pubkey'] if len(account_keys) > 1 else 'Unknown'
Counterparty(keys) == IF Len(keys) > 1 THEN keys[2] ELSE "Unknown"

\* Lines 195-245, the body of the loop for one signature: the sequence of the
\* one transaction appended, or the empty sequence when the entry is skipped
\* (a continue, or an exception caught at line 244).
ParseTx(d, signature, a) ==
    IF d.kind # "record" THEN <<>>
    ELSE LET idx == AccountIndex(d.keys, a) IN
         IF idx = -1 THEN <<>>
         ELSE IF idx > Len(d.pre) \/ idx > Len(d.post) THEN <<>>
         ELSE LET delta == d.post[idx] - d.pre[idx] IN
              IF delta = 0 THEN <<>>
              ELSE IF d.bt_kind = "null" THEN <<>>
              ELSE << [signature |-> signature,
                       type      |-> IF delta > 0 THEN "incoming" ELSE "outgoing",
                       amount    |-> ToSol(Abs(delta)),
                       sender    |-> IF delta > 0 THEN Counterparty(d.keys) ELSE a,
                       recipient |-> IF delta > 0 THEN a ELSE Counterparty(d.keys),
                       timestamp |-> IF d.bt_kind = "absent" THEN 0 ELSE d.bt * 1000] >>

\* Line 136: a request handler calls get_wallet_transactions(a); the listing
\* is posted to RPC_ENDPOINTS[0].
HistCall(a) ==
    /\ hist.pc = "idle"
    /\ hist' = [IdleHist EXCEPT !.pc = "L139", !.wallet_address = a]
    /\ UNCHANGED <<now, ledger, balance_cache, stored_at, gwb, wallets, events,
                   poller, task, conn>>

\* Lines 139-164 and 249-250: the listing comes back. Anything but a list of
\* signatures returns []; otherwise the walk starts.
HistAfterListing(h, r) ==
    IF r.kind = "list"
    THEN [h EXCEPT !.pc = "L174", !.listing = r.kind, !.signatures = r.sigs]
    ELSE [h EXCEPT !.pc = "returned", !.listing = r.kind]

HistListing(r) ==
    /\ hist.pc = "L139"
    /\ hist' = HistAfterListing(hist, r)
    /\ UNCHANGED <<now, ledger, balance_cache, stored_at, gwb, wallets, events,
                   poller, task, conn>>

\* Variant: the try of lines 169-245 is missing, so a failed detail fetch
\* reaches the handler of line 249 and the call returns [].
HistAfterDetail_NoInnerTry(h, d) ==
    LET i == Len(h.details) + 1
        g == [h EXCEPT !.details = Append(@, d),
                       !.transactions =
                           @ \o ParseTx(d, h.signatures[i], h.wallet_address)]
    IN  IF d.kind # "record"
        THEN [g EXCEPT !.pc = "returned", !.transactions = <<>>]
        ELSE IF i = Len(h.signatures)
        THEN [g EXCEPT !.pc = "returned"]
        ELSE g

\* Lines 168-247: the detail of the next signature comes back; its
\* transaction, if any, is appended, and the loop goes on to the next
\* signature or returns the transactions.
HistAfterDetail(h, d) ==
    LET i == Len(h.details) + 1
        g == [h EXCEPT !.details = Append(@, d),
                       !.transactions =
                           @ \o ParseTx(d, h.signatures[i], h.wallet_address)]
    IN  IF i = Len(h.signatures)
        THEN [g EXCEPT !.pc = "returned"]
        ELSE g

HistDetail(d) ==
    /\ hist.pc = "L174"
    /\ hist' = HistAfterDetail(hist, d)
    /\ UNCHANGED <<now, ledger, balance_cache, stored_at, gwb, wallets, events,
                   poller, task, conn>>

\* The caller has taken the list.
HistEnds ==
    /\ hist.pc = "returned"
    /\ hist' = IdleHist
    /\ UNCHANGED <<now, ledger, balance_cache, stored_at, gwb, wallets, events,
                   poller, task, conn>>

\* ------------------------------------------------------- handle_connect
\* The order in which a query returns the rows.
TableOrder == <<"W1", "W2">>

\* The thread of the socket handler.
ConnThread == "c1"

IdleConn ==
    [pc |-> "idle", read |-> FALSE, rows |-> <<>>, i |-> 0, sent |-> <<>>]

\* Lines 259-263: the active wallets are read and the loop calls
\* get_wallet_balance for the first of them; with no active wallet the handler
\* is over.
Connect ==
    LET rows == SelectSeq(TableOrder, LAMBDA a : a \in ActiveWallets)
    IN  /\ conn.pc = "idle"
        /\ gwb[ConnThread].pc = "idle"
        /\ IF rows = <<>>
           THEN /\ conn' = [IdleConn EXCEPT !.pc = "done", !.read = TRUE]
                /\ UNCHANGED gwb
           ELSE /\ conn' = [IdleConn EXCEPT !.pc = "L263", !.read = TRUE,
                                            !.rows = rows, !.i = 1]
                /\ Enter(ConnThread, rows[1])
        /\ UNCHANGED <<now, ledger, balance_cache, stored_at, wallets, events,
                       poller, task, hist>>

\* Lines 260 and 271-272: the query raises; the error is printed.
ConnectFails ==
    /\ conn.pc = "idle"
    /\ gwb[ConnThread].pc = "idle"
    /\ conn' = [IdleConn EXCEPT !.pc = "done"]
    /\ UNCHANGED <<now, ledger, balance_cache, stored_at, gwb, wallets, events,
                   poller, task, hist>>

\* Lines 263-270: get_wallet_balance is over for wallet i. Its balance is
\* emitted to the client as initial_load; an exception is printed instead and
\* nothing is emitted for this wallet.
ConnAfterFetch(c, f) ==
    IF f.pc = "raised"
    THEN c
    ELSE [c EXCEPT !.sent = Append(@, [type    |-> "initial_load",
                                       address |-> c.rows[c.i],
                                       balance |-> f.result])]

\* Lines 262-270: the loop goes on to the next wallet, or is over.
ConnFetched ==
    LET c == ConnAfterFetch(conn, gwb[ConnThread])
    IN  /\ conn.pc = "L263"
        /\ gwb[ConnThread].pc \in {"returned", "raised"}
        /\ IF conn.i < Len(conn.rows)
           THEN /\ conn' = [c EXCEPT !.i = conn.i + 1]
                /\ Enter(ConnThread, conn.rows[conn.i + 1])
           ELSE /\ conn' = [c EXCEPT !.pc = "done"]
                /\ Leave(ConnThread)
        /\ UNCHANGED <<now, ledger, balance_cache, stored_at, wallets, events,
                       poller, task, hist>>

\* The handler has returned; the next client may connect.
ConnEnds ==
    /\ conn.pc = "done"
    /\ conn' = IdleConn
    /\ UNCHANGED <<now, ledger, balance_cache, stored_at, gwb, wallets, events,
                   poller, task, hist>>

\* ------------------------------------------------------------ environment
\* No post is outstanding past its timeout.
NoOverdue == \A t \in Threads : gwb[t].pc = "L114" => now - gwb[t].sent_at < RequestTimeout

Tick ==
    /\ now < MaxTime
    /\ NoOverdue
    /\ now' = now + 1
    /\ stored_at' = [x \in DOMAIN stored_at |->
                        IF stored_at[x] < balance_cache_timeout
                        THEN stored_at[x] + 1 ELSE stored_at[x]]
    /\ UNCHANGED <<ledger, balance_cache, gwb, wallets, events, poller, task, hist, conn>>

\* the request handlers broadcast only while fewer than MaxEvents events have
\* been broadcast
MaxEvents == 2

\* A time one tick further in the past. RequestTimeout is the longest
\* interval the code measures (lines 30, 113, 315, 343), so times of
\* RequestTimeout ticks ago or more are all alike.
Earlier(x) == IF x > 0 THEN x - 1 ELSE 0

\* Time goes on for ever: once the clock reads RequestTimeout it keeps that
\* reading, and every time that was read from it is one tick further in the
\* past.
TickOn ==
    /\ now = RequestTimeout
    /\ NoOverdue
    /\ now' = now
    /\ stored_at' = [x \in DOMAIN stored_at |->
                        IF stored_at[x] < balance_cache_timeout
                        THEN stored_at[x] + 1 ELSE stored_at[x]]
    /\ balance_cache' = [x \in DOMAIN balance_cache |->
                            <<balance_cache[x][1], Earlier(balance_cache[x][2])>>]
    /\ gwb' = [t \in Threads |->
                 [gwb[t] EXCEPT !.current_time = Earlier(@), !.sent_at = Earlier(@)]]
    /\ poller' = [p \in Pollers |-> [poller[p] EXCEPT !.wake_at = Earlier(@)]]
    /\ wallets' = [x \in DOMAIN wallets |->
                     [wallets[x] EXCEPT !.last_updated = Earlier(@)]]
    /\ task' = [t \in Workers |->
                  IF task[t].wallet = NoRow THEN task[t]
                  ELSE [task[t] EXCEPT !.wallet.last_updated = Earlier(@)]]
    /\ UNCHANGED <<ledger, events, hist, conn>>

\* A tick of the clock below that reading.
TickUp ==
    /\ now < RequestTimeout
    /\ Tick

\* The balance of an account changes on the ledger, until the first
\* broadcast.
LedgerChangeSome(a, v) ==
    /\ events = <<>>
    /\ ledger[a] # v
    /\ ledger' = [ledger EXCEPT ![a] = v]
    /\ UNCHANGED <<now, balance_cache, stored_at, gwb, wallets, events, poller, task, hist, conn>>

\* The balance of an account changes on the ledger.
LedgerChange(a, v) ==
    /\ ledger[a] # v
    /\ ledger' = [ledger EXCEPT ![a] = v]
    /\ UNCHANGED <<now, balance_cache, stored_at, gwb, wallets, events, poller, task, hist, conn>>

\* ---------------------------------------------------- direct callers
\* The balances the callers see: the one of W1 moves between 1.0 and 1.2 SOL,
\* the one of W2 stays 0.
FetchValues(a) == IF a = "W1" THEN {1000000000, 1200000000} ELSE {0}

Call(t, a) ==
    /\ gwb[t].pc = "idle"
    /\ Enter(t, a)
    /\ UNCHANGED <<now, ledger, balance_cache, stored_at, wallets, events, poller, task, hist, conn>>

CallEnds(t) ==
    /\ gwb[t].pc \in {"returned", "raised"}
    /\ Leave(t)
    /\ UNCHANGED <<now, ledger, balance_cache, stored_at, wallets, events, poller, task, hist, conn>>

\* ------------------------------------------------- request handlers
\* The thread of a request handler.
ReqThread == "c1"

\* Lines 357-407: GET /api/wallet/<a> with a valid address calls
\* get_wallet_balance(a).
InfoCall(a) ==
    /\ validate_solana_address(a)
    /\ Call(ReqThread, a)

\* Lines 407-436 of the GET: get_wallet_balance is over. An exception is
\* answered with 500 and a missing row with 404; otherwise the balance is
\* compared with last_balance of the row just read and, if it differs, written,
\* committed and broadcast as balance_update. A commit that raises is answered
\* with 500 by the handler of line 434.
InfoEnds(ok) ==
    LET f == gwb[ReqThread]
        a == f.wallet_address
        changed == /\ f.pc = "returned"
                   /\ a \in DOMAIN wallets
                   /\ f.result # wallets[a].last_balance
                   /\ ok
    IN  /\ f.pc \in {"returned", "raised"}
        /\ wallets' = IF changed
                      THEN [wallets EXCEPT ![a].last_balance = f.result,
                                           ![a].last_updated = now]
                      ELSE wallets
        /\ events' = IF changed
                     THEN Append(events, [type    |-> "balance_update",
                                          address |-> a,
                                          balance |-> f.result])
                     ELSE events
        /\ Leave(ReqThread)
        /\ UNCHANGED <<now, ledger, balance_cache, stored_at, poller, task, hist, conn>>

\* The event a handler broadcasts for the row of a: wallet.to_dict() with a
\* type, and no balance.
RowEvent(kind, a) == [type |-> kind, address |-> a, balance |-> NoBalance]

\* Lines 446-457: DELETE /api/wallet/<a> deletes the row, commits and
\* broadcasts 'delete'; a commit that raises leaves everything as it was.
delete_wallet(a, ok) ==
    /\ a \in DOMAIN wallets
    /\ Len(events) < MaxEvents
    /\ wallets' = IF ok THEN [x \in DOMAIN wallets \ {a} |-> wallets[x]] ELSE wallets
    /\ events' = IF ok THEN Append(events, RowEvent("delete", a)) ELSE events
    /\ UNCHANGED <<now, ledger, balance_cache, stored_at, gwb, poller, task, hist, conn>>

\* Lines 459-470: POST /api/wallet/<a>/toggle flips is_active, commits and
\* broadcasts 'toggle'.
toggle_wallet(a, ok) ==
    /\ a \in DOMAIN wallets
    /\ Len(events) < MaxEvents
    /\ wallets' = IF ok THEN [wallets EXCEPT ![a].is_active = ~@] ELSE wallets
    /\ events' = IF ok THEN Append(events, RowEvent("toggle", a)) ELSE events
    /\ UNCHANGED <<now, ledger, balance_cache, stored_at, gwb, poller, task, hist, conn>>

\* Lines 472-494: POST /api/wallet/<a>/notifications sets
\* notifications_enabled, commits and broadcasts 'notifications'.
toggle_notifications(a, v, ok) ==
    /\ a \in DOMAIN wallets
    /\ Len(events) < MaxEvents
    /\ wallets' = IF ok THEN [wallets EXCEPT ![a].notifications_enabled = v] ELSE wallets
    /\ events' = IF ok THEN Append(events, RowEvent("notifications", a)) ELSE events
    /\ UNCHANGED <<now, ledger, balance_cache, stored_at, gwb, poller, task, hist, conn>>

\* Lines 496-521: POST /api/wallet/<a>/rename sets a non-empty name, commits
\* and broadcasts 'rename'.
rename_wallet(a, new_name, ok) ==
    /\ a \in DOMAIN wallets
    /\ Len(events) < MaxEvents
    /\ wallets' = IF ok THEN [wallets EXCEPT ![a].name = new_name] ELSE wallets
    /\ events' = IF ok THEN Append(events, RowEvent("rename", a)) ELSE events
    /\ UNCHANGED <<now, ledger, balance_cache, stored_at, gwb, poller, task, hist, conn>>

vars == <<now, ledger, balance_cache, stored_at, gwb, wallets, events, poller, task,
          hist, conn>>

Init ==
    /\ now = 0
    /\ ledger \in {l \in [Accounts -> LamportValues] :
                        \A a \in Accounts : l[a] \in FetchValues(a)}
    /\ balance_cache = <<>>
    /\ stored_at = <<>>
    /\ gwb = [t \in Threads |-> IdleFrame]
    /\ wallets = <<>>
    /\ events = <<>>
    /\ poller = [p \in Pollers |-> [pc |-> "sleep", wake_at |-> 0]]
    /\ task = [t \in Workers |-> IdleTask]
    /\ hist = IdleHist
    /\ conn = IdleConn

\* Any number of threads calling get_wallet_balance with any string.
NextFetch ==
    \/ Tick
    \/ \E a \in Accounts : \E v \in FetchValues(a) : LedgerChange(a, v)
    \/ \E t \in Callers, a \in Strings : Call(t, a)
    \/ \E t \in Callers : GwbStep(t)
    \/ \E t \in Callers : CallEnds(t)

SpecFetch == Init /\ [][NextFetch]_vars

\* ------------------------------------------------------ the poller at work
\* The balances the pollers see.
PollValues(a) == IF a = "W1" THEN {1000000000, 1200000000} ELSE {0}

\* The pollers P run and the wallets W are in the table, each active and
\* holding the balance fetched when it was added at time 0 (lines 370-384).
\* The wallets C were added by a POST to this process, so their balance is in
\* balance_cache; the others were added through another process on the same
\* wallets.db (the reloader of debug=True runs two), so this cache has nothing
\* for them.
InitEngine(P, W, C) ==
    /\ now = 0
    /\ ledger \in {l \in [Accounts -> LamportValues] :
                        \A a \in Accounts :
                            l[a] \in IF a \in W THEN PollValues(a) ELSE {0}}
    /\ balance_cache = [a \in C |-> <<ToSol(ledger[a]), 0>>]
    /\ stored_at = [a \in C |-> 0]
    /\ gwb = [t \in Threads |-> IdleFrame]
    /\ wallets = [a \in W |->
                    [last_balance |-> ToSol(ledger[a]), last_updated |-> 0,
                     is_active |-> TRUE, name |-> None,
                     notifications_enabled |-> FALSE]]
    /\ events = <<>>
    /\ poller = [p \in Pollers |->
                    [pc |-> IF p \in P THEN "sleep" ELSE "off", wake_at |-> 0]]
    /\ task = [t \in Workers |-> IdleTask]
    /\ hist = IdleHist
    /\ conn = IdleConn

NextPoll ==
    \/ Tick
    \/ \E a \in DOMAIN wallets : \E v \in PollValues(a) : LedgerChange(a, v)
    \/ \E p \in Pollers : Scan(p)
    \/ \E p \in Pollers : ScanFails(p)
    \/ \E t \in Workers : WorkerStart(t)
    \/ \E t \in Workers : GwbStep(t)
    \/ \E t \in Workers : WorkerFetched(t)
    \/ \E t \in Workers, ok \in BOOLEAN : WorkerCommit(t, ok)
    \/ \E t \in Workers : WorkerBroadcast(t)
    \/ \E p \in Pollers : Join(p)

\* The module loaded by a server: the poller of line 347, two wallets.
SpecPoll == InitEngine({"p1"}, {"W1", "W2"}, {"W1"}) /\ [][NextPoll]_vars

\* The module run as a script: the pollers of lines 347 and 530, one wallet.
SpecMain == InitEngine({"p1", "p2"}, {"W1"}, {"W1"}) /\ [][NextPoll]_vars

\* ------------------------------------------------- a client connects
\* No poller runs; clients connect one after the other to a process whose
\* table holds W1 and W2 and whose cache holds W1 alone.
NextConnect ==
    \/ Tick
    \/ \E a \in DOMAIN wallets : \E v \in PollValues(a) : LedgerChange(a, v)
    \/ Connect
    \/ ConnectFails
    \/ GwbStep(ConnThread)
    \/ ConnFetched
    \/ ConnEnds

SpecConnect == InitEngine({}, {"W1", "W2"}, {"W1"}) /\ [][NextConnect]_vars

\* ------------------------------------------ the poller and GET requests
\* One poller and one wallet, whose balance clients ask for with GET.
NextInfo ==
    \/ Tick
    \/ \E a \in DOMAIN wallets : \E v \in PollValues(a) : LedgerChange(a, v)
    \/ \E p \in Pollers : Scan(p)
    \/ \E p \in Pollers : ScanFails(p)
    \/ \E t \in Workers : WorkerStart(t)
    \/ \E t \in Workers \cup {ReqThread} : GwbStep(t)
    \/ \E t \in Workers : WorkerFetched(t)
    \/ \E t \in Workers, ok \in BOOLEAN : WorkerCommit(t, ok)
    \/ \E t \in Workers : WorkerBroadcast(t)
    \/ \E p \in Pollers : Join(p)
    \/ \E a \in DOMAIN wallets : InfoCall(a)
    \/ \E ok \in BOOLEAN : InfoEnds(ok)

SpecInfo == InitEngine({"p1"}, {"W1"}, {"W1"}) /\ [][NextInfo]_vars

\* ------------------------------- the poller and the registry handlers
\* One poller and one wallet, which clients delete, toggle and rename.
NextAdmin ==
    \/ Tick
    \/ \E a \in DOMAIN wallets : \E v \in PollValues(a) : LedgerChange(a, v)
    \/ \E p \in Pollers : Scan(p)
    \/ \E p \in Pollers : ScanFails(p)
    \/ \E t \in Workers : WorkerStart(t)
    \/ \E t \in Workers : GwbStep(t)
    \/ \E t \in Workers : WorkerFetched(t)
    \/ \E t \in Workers, ok \in BOOLEAN : WorkerCommit(t, ok)
    \/ \E t \in Workers : WorkerBroadcast(t)
    \/ \E p \in Pollers : Join(p)
    \/ \E a \in Accounts, ok \in BOOLEAN : delete_wallet(a, ok)
    \/ \E a \in Accounts, ok \in BOOLEAN : toggle_wallet(a, ok)
    \/ \E a \in Accounts, v, ok \in BOOLEAN : toggle_notifications(a, v, ok)
    \/ \E a \in Accounts, ok \in BOOLEAN : rename_wallet(a, "n1", ok)

SpecAdmin == InitEngine({"p1"}, {"W1"}, {"W1"}) /\ [][NextAdmin]_vars

\* ------------------------------------------- the poller for ever
\* The poller of SpecPoll with time going on for ever, over the table of
\* SpecPoll or over an empty table.
NextLive ==
    \/ TickUp
    \/ TickOn
    \/ \E a \in DOMAIN wallets : \E v \in PollValues(a) : LedgerChangeSome(a, v)
    \/ \E p \in Pollers : Scan(p)
    \/ \E p \in Pollers : ScanFails(p)
    \/ \E t \in Workers : WorkerStart(t)
    \/ \E t \in Workers : GwbStep(t)
    \/ \E t \in Workers : WorkerFetched(t)
    \/ \E t \in Workers, ok \in BOOLEAN : WorkerCommit(t, ok)
    \/ \E t \in Workers : WorkerBroadcast(t)
    \/ \E p \in Pollers : Join(p)

InitLive ==
    \/ InitEngine({"p1"}, {"W1", "W2"}, {"W1"})
    \/ InitEngine({"p1"}, {}, {})

\* Time passes; every post comes back (with an answer, an error or the
\* Timeout of line 113); the executor runs every task it was given; the
\* poller thread runs.
FairLive ==
    /\ WF_vars(TickUp \/ TickOn)
    /\ \A t \in TasksOf("p1") :
          /\ WF_vars(WorkerStart(t))
          /\ WF_vars(GwbStep(t))
          /\ WF_vars(WorkerFetched(t))
          /\ WF_vars(\E ok \in BOOLEAN : WorkerCommit(t, ok))
          /\ WF_vars(WorkerBroadcast(t))
    /\ WF_vars(Scan("p1") \/ ScanFails("p1"))
    /\ WF_vars(Join("p1"))

SpecLive == InitLive /\ [][NextLive]_vars /\ FairLive

\* ------------------------------ the poller and another caller for ever
\* A post comes back with a well-formed success.
Answered(t) ==
    /\ \E r \in Responses : WellFormedSuccess(r) /\ L114(t, r)
    /\ UNCHANGED <<wallets, events, poller, task, hist, conn>>

\* The poller with time going on for ever, one wallet, and another thread
\* (the handler of a connecting client, say) calling get_wallet_balance for it.
NextPulled ==
    \/ TickUp
    \/ TickOn
    \/ \E a \in DOMAIN wallets : \E v \in PollValues(a) : LedgerChangeSome(a, v)
    \/ \E a \in DOMAIN wallets : Call(ConnThread, a)
    \/ GwbStep(ConnThread)
    \/ CallEnds(ConnThread)
    \/ \E p \in Pollers : Scan(p)
    \/ \E p \in Pollers : ScanFails(p)
    \/ \E t \in Workers : WorkerStart(t)
    \/ \E t \in Workers : GwbStep(t)
    \/ \E t \in Workers : WorkerFetched(t)
    \/ \E t \in Workers, ok \in BOOLEAN : WorkerCommit(t, ok)
    \/ \E t \in Workers : WorkerBroadcast(t)
    \/ \E p \in Pollers : Join(p)

\* Time passes, every post comes back and the threads run; the posts of a
\* task do not fail for ever, nor do the reads and the commits of the table.
FairPulled ==
    /\ WF_vars(TickUp \/ TickOn)
    /\ WF_vars(GwbStep(ConnThread))
    /\ WF_vars(WorkerStart("p1.W1"))
    /\ WF_vars(GwbStep("p1.W1"))
    /\ SF_vars(Answered("p1.W1"))
    /\ WF_vars(WorkerFetched("p1.W1"))
    /\ WF_vars(\E ok \in BOOLEAN : WorkerCommit("p1.W1", ok))
    /\ SF_vars(WorkerCommit("p1.W1", TRUE))
    /\ WF_vars(WorkerBroadcast("p1.W1"))
    /\ WF_vars(Scan("p1") \/ ScanFails("p1"))
    /\ SF_vars(Scan("p1"))
    /\ WF_vars(Join("p1"))

SpecPulled == InitEngine({"p1"}, {"W1"}, {"W1"}) /\ [][NextPulled]_vars /\ FairPulled

\* ----------------------------------------------------- the history walk
NextHist ==
    \/ \E a \in Accounts : HistCall(a)
    \/ \E r \in ListingResponses : HistListing(r)
    \/ \E d \in DetailResponses : HistDetail(d)
    \/ HistEnds

SpecHist == Init /\ [][NextHist]_vars

\* ------------------------------------------------------------------ claims
\* The step taken is one of thread t's get_wallet_balance activation.
Moves(t) == gwb'[t] # gwb[t]

\* C1: for a valid address, when every endpoint has failed (the activation is
\* at line 126, or in the handler of line 130 with that failure) and the
\* cache holds an entry for the address, however old, the call returns that
\* entry's value as a normal result and leaves the cache as it is.
C1_StaleFallback ==
    [][\A t \in Threads :
        LET f == gwb[t]
            a == f.wallet_address
        IN  ( /\ f.pc \in {"L126", "L130"}
              /\ a \in Accounts
              /\ Moves(t)
              /\ a \in DOMAIN balance_cache )
            => /\ gwb'[t].pc = "returned"
               /\ gwb'[t].result = balance_cache[a][1]
               /\ gwb'[t].attempts = RPC_ENDPOINTS
               /\ balance_cache' = balance_cache]_vars

\* A call has returned the cached balance after contacting every endpoint,
\* the entry being older than balance_cache_timeout.
C1_Witness ==
    \E t \in Threads :
        /\ gwb[t].pc = "returned"
        /\ gwb[t].via = "stale"
        /\ gwb[t].attempts = RPC_ENDPOINTS
        /\ gwb[t].wallet_address \in DOMAIN balance_cache
        /\ stored_at[gwb[t].wallet_address] = balance_cache_timeout
        /\ gwb[t].result = balance_cache[gwb[t].wallet_address][1]

\* C2: for a valid address, when every endpoint has failed and the cache has
\* never held an entry for the address (entries are never removed, so: holds
\* none), the call raises AllEndpointsFailed, returns no value, and the cache
\* still holds no entry for the address.
C2_AllEndpointsFailed ==
    [][/\ DOMAIN balance_cache \subseteq DOMAIN balance_cache'
       /\ \A t \in Threads :
            LET f == gwb[t]
                a == f.wallet_address
            IN  ( /\ f.pc \in {"L126", "L130"}
                  /\ a \in Accounts
                  /\ Moves(t)
                  /\ a \notin DOMAIN balance_cache )
                => /\ gwb'[t].pc = IF f.pc = "L126" THEN "L130" ELSE "raised"
                   /\ gwb'[t].exc = AllEndpointsFailed
                   /\ gwb'[t].result = NoBalance
                   /\ gwb'[t].attempts = RPC_ENDPOINTS
                   /\ a \notin DOMAIN balance_cache']_vars

\* A call for a valid address has raised AllEndpointsFailed after contacting
\* every endpoint, and the cache holds nothing for the address.
C2_Witness ==
    \E t \in Threads :
        /\ gwb[t].pc = "raised"
        /\ gwb[t].exc = AllEndpointsFailed
        /\ gwb[t].wallet_address \in Accounts
        /\ gwb[t].attempts = RPC_ENDPOINTS
        /\ gwb[t].wallet_address \notin DOMAIN balance_cache

\* C3: a call for an address whose latest successful network fetch was
\* stored less than balance_cache_timeout ago is answered from the cache,
\* with the cached value and without any network request.
C3_SecondCallCached ==
    [][\A t \in Threads :
        LET a == gwb'[t].wallet_address IN
        ( /\ gwb[t].pc = "idle"
          /\ gwb'[t].pc # "idle"
          /\ a \in DOMAIN stored_at
          /\ stored_at[a] < balance_cache_timeout )
        => /\ gwb'[t].pc = "returned"
           /\ gwb'[t].attempts = <<>>
           /\ gwb'[t].result = balance_cache[a][1]]_vars

\* C4: a call with a string the validator rejects raises InvalidAddress,
\* sends no request to any endpoint, and neither creates nor changes a cache
\* entry, whatever happened before.
C4_InvalidAddress ==
    [][\A t \in Threads :
        LET f == gwb'[t]
            a == f.wallet_address
        IN  (f.pc # "idle" /\ a \notin Accounts)
            => /\ f.pc \in {"L130", "raised"}
               /\ f.exc = InvalidAddress
               /\ f.result = NoBalance
               /\ f.attempts = <<>>
               /\ a \notin DOMAIN balance_cache'
               /\ (Moves(t) => balance_cache' = balance_cache)]_vars

\* A call with a rejected string has raised InvalidAddress while the cache
\* holds entries from earlier calls.
C4_Witness ==
    \E t \in Threads :
        /\ gwb[t].pc = "raised"
        /\ gwb[t].exc = InvalidAddress
        /\ gwb[t].wallet_address \in Strings \ Accounts
        /\ DOMAIN balance_cache # {}

\* The response is a transport error, a non-success status or a malformed
\* payload.
EndpointFailed(r) ==
    \/ r.raised # None
    \/ ~r.ok
    \/ r.json \in {"invalid", "no_result", "no_value"}

\* The endpoints contacted so far are the first ones of RPC_ENDPOINTS, in
\* order, each once.
Prefixes == {SubSeq(RPC_ENDPOINTS, 1, n) : n \in 0..Len(RPC_ENDPOINTS)}

InOrder(f) == f.attempts \in Prefixes

\* C5: on a cache miss the endpoints are contacted in the order of
\* RPC_ENDPOINTS from the first one, each at most once; a transport error, a
\* non-success status or a malformed payload moves the call to the next
\* endpoint (or ends the loop after the last); the first well-formed success
\* ends the call, no further endpoint is contacted, and the value returned is
\* the endpoint's lamport value divided by 10^9.
C5_FailoverOrder ==
    [][\A t \in Threads :
        /\ InOrder(gwb'[t])
        /\ (gwb[t].pc = "idle" /\ gwb'[t].pc = "L114")
              => gwb'[t].attempts = <<RPC_ENDPOINTS[1]>>
        /\ (gwb[t].pc \notin {"idle", "L114"} /\ gwb'[t].pc # "idle")
              => gwb'[t].attempts = gwb[t].attempts
        /\ \A r \in Responses :
             (gwb[t].pc = "L114" /\ Moves(t) /\ L114(t, r)) =>
               LET f == gwb[t]
                   g == gwb'[t]
                   n == Len(f.attempts)
               IN  IF EndpointFailed(r)
                   THEN /\ balance_cache' = balance_cache
                        /\ IF n < Len(RPC_ENDPOINTS)
                           THEN /\ g.pc = "L114"
                                /\ g.attempts = Append(f.attempts, RPC_ENDPOINTS[n + 1])
                           ELSE /\ g.pc = "L126"
                                /\ g.attempts = f.attempts
                   ELSE /\ g.pc = "returned"
                        /\ g.attempts = f.attempts
                        /\ LAMPORTS_PER_SOL % g.result[2] = 0
                        /\ g.result[1] * (LAMPORTS_PER_SOL \div g.result[2])
                              = ledger[f.wallet_address]]_vars

\* A call has returned 1.2 SOL from the second endpoint after the first one
\* failed; the third was not contacted.
C5_Witness ==
    \E t \in Threads :
        /\ gwb[t].pc = "returned"
        /\ gwb[t].via = "network"
        /\ gwb[t].attempts = <<RPC_ENDPOINTS[1], RPC_ENDPOINTS[2]>>
        /\ gwb[t].result = <<6, 5>>

\* C6: an entry stored at the current time carries the current time as its
\* observation time (so it is fresh when the call that stored it returns).
C6_StoredWithCurrentTime ==
    \A a \in DOMAIN balance_cache :
        stored_at[a] = 0 => balance_cache[a][2] = now

\* C8: the observation time of a cache entry never decreases, and an entry
\* is replaced only by one with a strictly newer observation time.
C8_LastWriterWins ==
    [][\A a \in DOMAIN balance_cache :
        balance_cache'[a] # balance_cache[a]
            => balance_cache'[a][2] > balance_cache[a][2]]_vars

\* The balance_update events for address a, in order.
UpdatesOf(log, a) ==
    SelectSeq(log, LAMBDA e : e.type = "balance_update" /\ e.address = a)

\* No two successive balance_update events of an address carry the same
\* balance.
NoRepeatedUpdate(log) ==
    \A a \in Accounts :
        LET u == UpdatesOf(log, a)
        IN  \A i \in 1..(Len(u) - 1) : u[i].balance # u[i + 1].balance

\* C7: when a task of a poll cycle has fetched a balance equal to the
\* last_balance the table records, it writes nothing and emits nothing; when
\* the balance differs, the task goes on to write it, the write makes
\* last_balance the new balance, and one balance_update carrying the new
\* balance is emitted for the change (fetching the same value again emits
\* nothing).
C7_ChangeDetection ==
    [][/\ NoRepeatedUpdate(events')
       /\ \A t \in Workers :
            LET k  == task[t]
                k2 == task'[t]
                a  == Tasks[t].address
            IN  /\ (k.pc = "L320" /\ k2.pc # "L320" /\ gwb[t].pc = "returned")
                     => IF gwb[t].result = wallets[a].last_balance
                        THEN k2.pc = "done" /\ wallets' = wallets /\ events' = events
                        ELSE k2.pc = "L324" /\ k2.balance = gwb[t].result
                /\ (k.pc = "L324" /\ k2.pc = "L332")
                     => wallets'[a].last_balance = k.balance
                /\ (k.pc = "L332" /\ k2.pc = "done")
                     => events' = Append(events, [type |-> "balance_update",
                                                  address |-> a,
                                                  balance |-> k.balance])]_vars

\* C9: a task whose refresh failed (get_wallet_balance raised, or the commit
\* raised) changes no row and emits no event; rows change and events are
\* emitted only by tasks that got past their commit; every active wallet of
\* the scan gets a task, and when the cycle is over every task has run to its
\* end, the changed and committed balances having been broadcast; the loop
\* then sleeps PollInterval and scans again, whatever failed.
C9_FailureIsolation ==
    [][/\ \A t \in Workers :
            LET k  == task[t]
                k2 == task'[t]
                a  == Tasks[t].address
            IN  /\ k2.error # None => (k2.pc = "done" /\ ~k2.wrote /\ ~k2.sent)
                /\ (k2.error # None /\ k.error = None)
                     => (wallets' = wallets /\ events' = events)
                /\ (k.pc = "L320" /\ k2.pc # "L320")
                     => IF gwb[t].pc = "raised"
                        THEN k2.error # None
                        ELSE IF gwb[t].result # k.wallet.last_balance
                        THEN k2.pc = "L324"
                        ELSE k2.pc = "done" /\ k2.error = None
                /\ k2.pc = "L332" => (k2.wrote /\ ~k2.sent)
                /\ (k2.pc = "done" /\ k2.error = None) => (k2.wrote <=> k2.sent)
                /\ (k.pc = "L324" /\ k2.pc # "L324")
                     => \/ k2.error # None
                        \/ k2.pc = "L332" /\ wallets'[a].last_balance = k.balance
       /\ \A a \in DOMAIN wallets :
            (a \in DOMAIN wallets' /\ wallets'[a] # wallets[a])
              => \E t \in Workers :
                    Tasks[t].address = a /\ task[t].pc = "L324" /\ task'[t].wrote
       /\ events' # events
            => \E t \in Workers :
                    /\ task[t].pc = "L332" /\ task[t].wrote /\ task'[t].sent
                    /\ events' = Append(events, [type |-> "balance_update",
                                                 address |-> Tasks[t].address,
                                                 balance |-> task[t].balance])
       /\ \A p \in Pollers :
            /\ (poller[p].pc = "sleep" /\ poller'[p].pc = "L338")
                 => \A t \in TasksOf(p) :
                        Tasks[t].address \in ActiveWallets => task'[t].pc = "queued"
            /\ (poller[p].pc = "L338" /\ poller'[p] # poller[p])
                 => /\ \A t \in TasksOf(p) : task[t].pc \in {"idle", "done"}
                    /\ poller'[p] = [pc |-> "sleep", wake_at |-> now + PollInterval]]_vars

\* In one cycle the refresh of one wallet has failed without a write or an
\* event, and the changed balance of the other wallet has been written and
\* broadcast.
C9_Witness ==
    \E t1, t2 \in Workers :
        /\ Tasks[t1].poller = Tasks[t2].poller
        /\ poller[Tasks[t1].poller].pc = "L338"
        /\ task[t1].pc = "done" /\ task[t1].error = "fetch"
        /\ task[t2].pc = "done" /\ task[t2].wrote /\ task[t2].sent
        /\ wallets[Tasks[t2].address].last_balance = task[t2].balance
        /\ Len(UpdatesOf(events, Tasks[t1].address)) = 0
        /\ Len(UpdatesOf(events, Tasks[t2].address)) = 1

\* The signatures of seq at the positions S, in order.
RECURSIVE Pick(_, _)
Pick(seq, S) ==
    IF S = {} THEN <<>>
    ELSE LET m == CHOOSE x \in S : \A y \in S : y <= x
         IN  Append(Pick(seq, S \ {m}), seq[m])

\* C10: get_wallet_transactions always ends by returning a list. If the
\* listing failed in any way the list is empty. Otherwise the detail of every
\* signature of the listing has been fetched (a failed one does not end the
\* walk), and the signatures of the list are those of the listing at some
\* positions whose detail fetch did not fail, in the listing's order.
C10_HistoryNeverRaises ==
    /\ hist.pc \in {"idle", "L139", "L174", "returned"}
    /\ hist.pc = "returned" =>
         IF hist.listing # "list"
         THEN hist.transactions = <<>>
         ELSE /\ Len(hist.details) = Len(hist.signatures)
              /\ \E S \in SUBSET {i \in 1..Len(hist.signatures) :
                                    hist.details[i].kind = "record"} :
                    Pick(hist.signatures, S) =
                        [j \in 1..Len(hist.transactions) |->
                            hist.transactions[j].signature]
    /\ hist.pc = "L174" =>
         /\ hist.listing = "list"
         /\ Len(hist.details) < Len(hist.signatures)

\* Of three signatures the detail fetch of the first failed and the second
\* gave no transaction; the list returned holds the third alone.
C10_Witness ==
    /\ hist.pc = "returned"
    /\ Len(hist.signatures) = 3
    /\ hist.details[1].kind = "raise"
    /\ hist.details[2].kind = "record"
    /\ hist.details[3].kind = "record"
    /\ Len(hist.transactions) = 1
    /\ hist.transactions[1].signature = hist.signatures[3]
    /\ hist.signatures[3] # hist.signatures[2]

\* The positions of account_keys that hold the address a.
PositionsOf(keys, a) == {i \in 1..Len(keys) : keys[i] = a}

\* The transaction tx is what the record d shows for the address a: a is
\* among the account keys, and at the first index of a the balance delta is not
\* zero, the amount is its absolute value in SOL and is positive, and the
\* direction is incoming exactly for a positive delta and outgoing exactly for
\* a negative one.
ShowsDelta(tx, d, a) ==
    /\ d.kind = "record"
    /\ PositionsOf(d.keys, a) # {}
    /\ LET i == CHOOSE x \in PositionsOf(d.keys, a) :
                    \A y \in PositionsOf(d.keys, a) : x <= y
           delta == d.post[i] - d.pre[i]
       IN  /\ i <= Len(d.pre) /\ i <= Len(d.post)
           /\ delta # 0
           /\ tx.amount[1] * LAMPORTS_PER_SOL =
                 (IF delta > 0 THEN delta ELSE 0 - delta) * tx.amount[2]
           /\ tx.amount[1] > 0 /\ tx.amount[2] > 0
           /\ tx.type = "incoming" <=> delta > 0
           /\ tx.type = "outgoing" <=> delta < 0

\* C11: every transaction get_wallet_transactions collects comes from the
\* detail record of its signature, has a strictly positive amount equal to
\* |postBalance - preBalance| / 1e9 at the index of the queried address, and is
\* incoming exactly when the delta is positive and outgoing exactly when it is
\* negative; a record whose delta is 0 or whose account keys do not hold the
\* queried address adds nothing to the list.
C11_AmountAndDirection ==
    [][hist'.details # hist.details /\ hist.pc = "L174" =>
        LET d == hist'.details[Len(hist'.details)]
            a == hist.wallet_address
            n == Len(hist.transactions)
            m == Len(hist'.transactions)
        IN  /\ m \in {n, n + 1}
            /\ \A j \in 1..n : hist'.transactions[j] = hist.transactions[j]
            /\ m = n + 1 => ShowsDelta(hist'.transactions[m], d, a)
            /\ (d.kind = "record" /\ PositionsOf(d.keys, a) = {}) => m = n
            /\ (d.kind = "record" /\ PositionsOf(d.keys, a) # {}
                  /\ \A i \in PositionsOf(d.keys, a) :
                        i <= Len(d.pre) /\ i <= Len(d.post) /\ d.post[i] = d.pre[i])
                 => m = n]_vars

\* The list returned for W1 holds the outgoing transaction of 1 SOL of the
\* first record alone: the zero-delta record and the record whose account keys
\* lack W1's balances have been dropped.
C11_Witness ==
    /\ hist.pc = "returned"
    /\ Len(hist.details) = 3
    /\ hist.wallet_address = "W1"
    /\ hist.details[1].kind = "record"
    /\ hist.details[2].kind = "record"
    /\ hist.details[2].keys = <<"W1">>
    /\ hist.details[2].pre = hist.details[2].post
    /\ hist.details[3].kind = "record"
    /\ Len(hist.transactions) = 1
    /\ hist.transactions[1].type = "outgoing"
    /\ hist.transactions[1].amount = <<1, 1>>
    /\ hist.transactions[1].sender = "W1"

C13_WritesSerialized ==
    [][/\ \A t \in Workers :
            (task[t].pc = "L324" /\ task'[t].pc = "L332")
              => /\ task[t].wallet.last_balance =
                        wallets[Tasks[t].address].last_balance
                 /\ task[t].wallet.last_updated =
                        wallets[Tasks[t].address].last_updated
       /\ NoRepeatedUpdate(events) => NoRepeatedUpdate(events')]_vars

\* A step of the poller or of one of its tasks.
PollerStep ==
    \/ task' # task
    \/ poller' # poller
    \/ \E t \in Workers : gwb'[t] # gwb[t]

\* C14: a step of the poller creates and deletes no row and leaves name,
\* is_active and notifications_enabled of every row as they are; if it changes
\* the table at all, it is the commit of a task whose fetched balance differs
\* from the last_balance it read, and it sets last_balance and last_updated of
\* that task's row and nothing else - also when a handler has deleted,
\* renamed or toggled the row since the scan.
C14_RegistryFrame ==
    [][PollerStep =>
        /\ DOMAIN wallets' = DOMAIN wallets
        /\ \A a \in DOMAIN wallets :
              /\ wallets'[a].name = wallets[a].name
              /\ wallets'[a].is_active = wallets[a].is_active
              /\ wallets'[a].notifications_enabled = wallets[a].notifications_enabled
        /\ wallets' # wallets =>
              \E t \in Workers :
                 /\ task[t].pc = "L324"
                 /\ task[t].balance # task[t].wallet.last_balance
                 /\ wallets' = [wallets EXCEPT
                                  ![Tasks[t].address].last_balance = task[t].balance,
                                  ![Tasks[t].address].last_updated = now]]_vars

\* A task has written the new balance of a row that was renamed and toggled
\* after the scan; name and is_active are those the handlers set.
C14_Witness ==
    \E t \in Workers :
        /\ task[t].pc = "L332" /\ task[t].wrote
        /\ Tasks[t].address \in DOMAIN wallets
        /\ wallets[Tasks[t].address].last_balance = task[t].balance
        /\ wallets[Tasks[t].address].name = "n1"
        /\ ~wallets[Tasks[t].address].is_active
        /\ task[t].wallet.name = None
        /\ task[t].wallet.is_active

\* C20: a task writes a row, and a task broadcasts balance_update, only for
\* an address that is in the table and active at that moment.
C20_NoWriteWhenInactive ==
    [][\A t \in Workers :
          ((task[t].pc = "L324" /\ task'[t].pc = "L332")
             \/ (task[t].pc = "L332" /\ task'[t].pc = "done"))
            => /\ Tasks[t].address \in DOMAIN wallets
               /\ wallets[Tasks[t].address].is_active]_vars

\* The places of a task, in the order update_wallet passes them.
TaskOrder(pc) ==
    CASE pc = "idle"   -> 0
      [] pc = "queued" -> 1
      [] pc = "L320"   -> 2
      [] pc = "L324"   -> 3
      [] pc = "L332"   -> 4
      [] pc = "done"   -> 5

\* C15: within the refresh of one address the cache write comes before the
\* comparison, the comparison before the write of the row, and the write
\* before the broadcast: get_wallet_balance runs, and stores, only while the
\* task is at line 320; the row is written only by the commit step of a task
\* that has compared, and sets last_balance to the fetched balance; a
\* balance_update is emitted only by a task whose commit has written that
\* balance; and a task whose commit failed emits nothing.
C15_RefreshOrder ==
    [][/\ \A t \in Workers :
             LET k  == task[t]
                 k2 == task'[t]
                 a  == Tasks[t].address
             IN  /\ gwb[t].pc # "idle" => k.pc = "L320"
                 /\ (k2 # k /\ k2.pc # "idle" /\ k2.pc # "queued")
                       => TaskOrder(k2.pc) > TaskOrder(k.pc)
                 /\ (gwb[t].pc = "L114" /\ balance_cache' # balance_cache
                       /\ gwb'[t].pc = "returned")
                       => (k.pc = "L320" /\ k2.pc = "L320")
                 /\ (k.pc = "L320" /\ k2.pc # "L320")
                       => /\ gwb[t].pc \in {"returned", "raised"}
                          /\ gwb[t].via = "network" => a \in DOMAIN balance_cache
                          /\ wallets' = wallets /\ events' = events
                 /\ (k.pc = "L324" /\ k2.pc # "L324")
                       => /\ events' = events
                          /\ IF k2.pc = "L332"
                             THEN k2.wrote /\ wallets'[a].last_balance = k.balance
                             ELSE k2.pc = "done" /\ ~k2.wrote /\ wallets' = wallets
                 /\ (k.pc = "L332" /\ k2.pc # "L332")
                       => /\ k.wrote
                          /\ wallets' = wallets
                          /\ events' = Append(events, [type    |-> "balance_update",
                                                       address |-> a,
                                                       balance |-> k.balance])
       /\ wallets' # wallets
               => \E t \in Workers : task[t].pc = "L324" /\ task'[t].pc = "L332"
       /\ events' # events
               => \E t \in Workers : task[t].pc = "L332" /\ task'[t].pc = "done"]_vars

\* A task has fetched a new balance from an endpoint, which stored it in the
\* cache, and has written it to the row; the broadcast is still to come.
C15_Witness ==
    \E t \in Workers :
        /\ task[t].pc = "L332" /\ task[t].wrote
        /\ Tasks[t].address \in DOMAIN balance_cache
        /\ balance_cache[Tasks[t].address][1] = task[t].balance
        /\ stored_at[Tasks[t].address] = 0
        /\ wallets[Tasks[t].address].last_balance = task[t].balance
        /\ UpdatesOf(events, Tasks[t].address) = <<>>

\* The tasks that are refreshing the address a.
Refreshing(a) ==
    {t \in Workers : Tasks[t].address = a
                       /\ task[t].pc \in {"queued", "L320", "L324", "L332"}}

\* C16: there is one poller loop and its cycles do not overlap: at most one
\* cycle is dispatching, a loop that is between cycles has no task left, and
\* each address is refreshed by at most one task at a time.
C16_SinglePoller ==
    /\ Cardinality({p \in Pollers : poller[p].pc = "L338"}) <= 1
    /\ \A p \in Pollers :
          poller[p].pc # "L338" => \A t \in TasksOf(p) : task[t].pc = "idle"
    /\ \A a \in DOMAIN wallets : Cardinality(Refreshing(a)) <= 1

\* C17: the poller never stops: a cycle that is dispatching is eventually
\* over, whatever its tasks met, and the table is read again and again, also
\* after a read that failed; a scan that finds no active wallet dispatches no
\* task and the loop pauses EmptyPause before the next one.
C17_PollerLiveness ==
    /\ (poller["p1"].pc = "L338") ~> (poller["p1"].pc = "sleep")
    /\ []<><<Scan("p1") \/ ScanFails("p1")>>_vars
    /\ [][(Scan("p1") /\ ActiveWallets = {})
            => /\ task' = task
               /\ poller'["p1"] = [pc |-> "sleep", wake_at |-> now + EmptyPause]]_vars

\* The cycle is about to end with every refresh having failed.
C17_Witness ==
    /\ poller["p1"].pc = "L338"
    /\ \A t \in TasksOf("p1") : task[t].pc = "done" /\ task[t].error # None

\* The table records the balance v for W1 and a balance_update of W1 carrying
\* v has been broadcast.
Published(v) ==
    /\ wallets["W1"].last_balance = v
    /\ \E i \in 1..Len(events) :
          events[i] = [type |-> "balance_update", address |-> "W1", balance |-> v]

\* C18: a change is not swallowed by the cache: when the cache holds the
\* balance of W1 on the ledger, and the table does not, then - unless the
\* balance on the ledger changes again - the table eventually records that
\* balance and a balance_update carrying it is broadcast.
C18_ChangeNotSwallowed ==
    \A v \in PollValues("W1") :
        (/\ ledger["W1"] = v
         /\ "W1" \in DOMAIN balance_cache
         /\ balance_cache["W1"][1] = ToSol(v)
         /\ wallets["W1"].last_balance # ToSol(v))
          ~> (ledger["W1"] # v \/ Published(ToSol(v)))

\* The task of W1 was answered from the cache, which another caller had
\* filled with the balance on the ledger, and that balance is not the one of
\* the table.
C18_Witness ==
    /\ task["p1.W1"].pc = "L320"
    /\ gwb["p1.W1"].pc = "returned"
    /\ gwb["p1.W1"].via = "fresh"
    /\ gwb["p1.W1"].result = ToSol(ledger["W1"])
    /\ gwb["p1.W1"].result # wallets["W1"].last_balance
    /\ gwb[ConnThread].pc = "returned"
    /\ gwb[ConnThread].via = "network"
    /\ events = <<>>

\* The strings of 32 to 44 base58 characters.
Accepted ==
    {a \in Strings :
        /\ Len(AddressText(a)) \in MinAddressLen..MaxAddressLen
        /\ \A i \in 1..Len(AddressText(a)) : AddressText(a)[i] \in valid_chars}

\* C19: every key of balance_cache is a string the validation accepts, so no
\* call with another string is answered from the cache, and looking into the
\* cache before validating (lines 90-97) gives what validating first would
\* give, for every string and in every state.
C19_CacheKeysValid ==
    /\ DOMAIN balance_cache \subseteq Accepted
    /\ \A t \in Threads :
          gwb[t].pc = "returned" => gwb[t].wallet_address \in Accepted
    /\ \A a \in Strings :
          LET f == [IdleFrame EXCEPT !.wallet_address = a, !.current_time = now]
          IN  FrameAfterL90(f) =
                 IF a \notin Accepted
                 THEN Raising(f, InvalidAddress)
                 ELSE IF a \in DOMAIN balance_cache
                         /\ CacheFresh(balance_cache[a], now)
                 THEN Returned(f, balance_cache[a][1], "fresh")
                 ELSE Posted(f, 1)

\* The cache holds W1 and W2; one caller has been answered from it, and the
\* call of the other with a string of valid length holding a '0' has raised.
C19_Witness ==
    /\ DOMAIN balance_cache = {"W1", "W2"}
    /\ gwb["c1"].pc = "returned"
    /\ gwb["c1"].via = "fresh"
    /\ gwb["c2"].pc = "raised"
    /\ gwb["c2"].wallet_address = "Zero"
    /\ gwb["c2"].exc = InvalidAddress

=============================================================================
